---- MODULE Spec2Model ----
(***************************************************************************)
(* Model of the chat endpoint of philinhphan/aicoach:                      *)
(*   - app/api/chat/route.ts : POST handler and the search_knowledge_base  *)
(*     tool function (createSearchTool);                                    *)
(*   - lib/langchain_message_converter.ts :                                 *)
(*     convertVercelMessagesToLangChainMessages.                            *)
(* Text that the code inspects or assembles (message content, queries,     *)
(* documents, tool results) is a sequence of one-character strings, so     *)
(* that trimming, concatenation and substring search are computed.  Text   *)
(* that the code only passes along (roles, HTTP error messages) is a TLA+  *)
(* string.                                                                  *)
(***************************************************************************)
EXTENDS Integers, Sequences, FiniteSets, TLC

VARIABLES
  pc,               \* position of the POST handler: "idle" | "responded"
  body,             \* outcome of req.json() for the request
  env,              \* process.env: which configuration values are set
  thrown,           \* the error caught by POST's outer catch, if any
  response,         \* the Response returned by POST
  constructed,      \* upstream collaborators constructed by POST
  agentInput,       \* argument given to agentExecutor.streamEvents
  runState,         \* agent run: "none" | "decide" | "tool" | "final" | "failed"
  pending,          \* tool input requested by the last model step
  scratchpad,       \* tool observations of the run, in order
  retrieverQueries, \* queries passed to retriever.getRelevantDocuments
  toolInput,        \* input of a stand-alone tool invocation
  storeOutcome,     \* what the store does when it is queried
  toolResult,       \* completion of the stand-alone tool invocation
  convIn,           \* input of a stand-alone converter call
  convOut           \* completion of the stand-alone converter call

vars == <<pc, body, env, thrown, response, constructed, agentInput, runState,
          pending, scratchpad, retrieverQueries, toolInput, storeOutcome,
          toolResult, convIn, convOut>>

----------------------------------------------------------------------------
(* Bounds of the model *)

MaxMsgs == 2
MaxDocs == 2
MaxToolCalls == 1

----------------------------------------------------------------------------
(* String literals of the source, character by character *)

ToolErrorNoQuery ==
  <<"T","o","o","l"," ","E","r","r","o","r",":"," ","N","o"," ","q","u","e",
    "r","y"," ","p","r","o","v","i","d","e","d","."," ","P","l","e","a","s",
    "e"," ","p","r","o","v","i","d","e"," ","a"," ","s","e","a","r","c","h",
    " ","q","u","e","r","y"," ","f","o","r"," ","t","h","e"," ","k","n","o",
    "w","l","e","d","g","e"," ","b","a","s","e",".">>

NoRelevantInfo ==
  <<"N","o"," ","r","e","l","e","v","a","n","t"," ","i","n","f","o","r","m",
    "a","t","i","o","n"," ","f","o","u","n","d"," ","i","n"," ","t","h","e",
    " ","k","n","o","w","l","e","d","g","e"," ","b","a","s","e"," ","f","o",
    "r"," ","t","h","a","t"," ","q","u","e","r","y",".">>

FoundHeader ==
  <<"F","o","u","n","d"," ","t","h","e"," ","f","o","l","l","o","w","i","n",
    "g"," ","i","n","f","o","r","m","a","t","i","o","n"," ","i","n"," ","t",
    "h","e"," ","k","n","o","w","l","e","d","g","e"," ","b","a","s","e",":",
    "\n">>

SourceLabel ==
  <<"S","o","u","r","c","e",":"," ">>

UnknownSource ==
  <<"U","n","k","n","o","w","n"," ","S","o","u","r","c","e">>

ContentLabel ==
  <<"\n","C","o","n","t","e","n","t",":"," ">>

DocDelimiter ==
  <<"\n","\n","-","-","-","\n">>

ToolErrorSearch ==
  <<"T","o","o","l"," ","E","r","r","o","r",":"," ","A","n"," ","e","r","r",
    "o","r"," ","o","c","c","u","r","r","e","d"," ","w","h","i","l","e"," ",
    "s","e","a","r","c","h","i","n","g"," ","t","h","e"," ","k","n","o","w",
    "l","e","d","g","e"," ","b","a","s","e",":"," ">>

UnknownRolePrefix ==
  <<"U","n","k","n","o","w","n"," ","r","o","l","e",":"," ">>

\* What a template literal `${v}` yields for v = undefined
UndefinedText ==
  <<"u","n","d","e","f","i","n","e","d">>

----------------------------------------------------------------------------
(* JavaScript string operations used by the source *)

\* White space removed by String.prototype.trim (the characters the model uses)
WhiteSpace == {" ", "\t", "\n"}

RECURSIVE TrimStart(_)
TrimStart(s) ==
  IF s # <<>> /\ Head(s) \in WhiteSpace THEN TrimStart(Tail(s)) ELSE s

RECURSIVE TrimEnd(_)
TrimEnd(s) ==
  IF s # <<>> /\ s[Len(s)] \in WhiteSpace
    THEN TrimEnd(SubSeq(s, 1, Len(s) - 1))
    ELSE s

Trim(s) == TrimEnd(TrimStart(s))

\* Array.prototype.join over an array of texts
RECURSIVE Join(_, _)
Join(parts, sep) ==
  IF parts = <<>> THEN <<>>
  ELSE IF Len(parts) = 1 THEN parts[1]
  ELSE parts[1] \o sep \o Join(Tail(parts), sep)

\* All sequences over S of length at most n
SeqsUpTo(S, n) == UNION {[1..k -> S] : k \in 0..n}

----------------------------------------------------------------------------
(* search_knowledge_base: the func of createSearchTool *)

TextQ == <<"q">>
TextBlank == <<" ", "\t">>
TextPadded == <<" ", "q", " ">>
TextX == <<"x">>
TextY == <<"y">>
TextA == <<"a", ".", "p", "d", "f">>
TextB == <<"b", ".", "p", "d", "f">>
TextQuoted == <<"S","o","u","r","c","e",":"," ","z">>
TextTimeout == <<"t","i","m","e","o","u","t">>

Queries == {<<>>, TextBlank, TextQ, TextPadded}

\* input: string | { query: string }
\* (an object whose query property is missing has hasQuery = FALSE)
ToolInputs ==
  [kind : {"string"}, text : Queries, hasQuery : {FALSE}, query : {<<>>}]
    \cup [kind : {"object"}, text : {<<>>}, hasQuery : {TRUE}, query : Queries]
    \cup [kind : {"object"}, text : {<<>>}, hasQuery : {FALSE}, query : {<<>>}]

\* Document: metadata?.source may be missing; pageContent is text
Documents ==
  [hasSource : {TRUE}, source : {<<>>, TextA, TextB}, pageContent : {TextX, TextY}]
    \cup [hasSource : {FALSE}, source : {<<>>}, pageContent : {TextX}]
    \cup [hasSource : {TRUE}, source : {TextA}, pageContent : {TextQuoted}]

\* A thrown Error: its message may be undefined
NoError == [hasMessage |-> FALSE, message |-> <<>>]
StoreErrors ==
  {NoError} \cup [hasMessage : {TRUE}, message : {<<>>, TextTimeout}]

\* retriever.getRelevantDocuments either resolves to documents or rejects
StoreOutcomes ==
  [kind : {"docs"}, docs : SeqsUpTo(Documents, MaxDocs), error : {NoError}]
    \cup [kind : {"throw"}, docs : {<<>>}, error : StoreErrors]

Return(text) == [kind |-> "return", value |-> text, error |-> NoError]
Throw(e) == [kind |-> "throw", value |-> <<>>, error |-> e]
NotCalled == [kind |-> "none", value |-> <<>>, error |-> NoError]

\* typeof input === 'string' ? input : input.query
QueryOf(input) ==
  IF input.kind = "string"
    THEN [defined |-> TRUE, text |-> input.text]
    ELSE [defined |-> input.hasQuery, text |-> input.query]

NoQueryUntrimmed(query) == ~query.defined \/ query.text = <<>>

\* !query || query.trim() === ""
NoQuery(query) ==
  ~query.defined \/ query.text = <<>> \/ Trim(query.text) = <<>>

FormatDoc(doc) ==
  SourceLabel
    \o (IF doc.hasSource /\ doc.source # <<>> THEN doc.source ELSE UnknownSource)
    \o ContentLabel \o doc.pageContent

FormatDocsNoDelimiter(docs) ==
  FoundHeader \o Join([i \in 1..Len(docs) |-> FormatDoc(docs[i])], <<"\n">>)

FormatDocs(docs) ==
  FoundHeader \o Join([i \in 1..Len(docs) |-> FormatDoc(docs[i])], DocDelimiter)

\* The try block: the awaited retriever call and the formatting
TryBlock(outcome) ==
  IF outcome.kind = "throw" THEN Throw(outcome.error)
  ELSE IF Len(outcome.docs) = 0 THEN Return(NoRelevantInfo)
  ELSE Return(FormatDocs(outcome.docs))

CatchBlockRethrow(error) == Throw(error)

\* The catch block
CatchBlock(error) ==
  Return(ToolErrorSearch
           \o (IF error.hasMessage THEN error.message ELSE UndefinedText))

func(input, outcome) ==
  IF NoQuery(QueryOf(input)) THEN Return(ToolErrorNoQuery)
  ELSE LET r == TryBlock(outcome)
       IN  IF r.kind = "throw" THEN CatchBlock(r.error) ELSE r

\* The retriever calls an invocation makes
RetrieverCalls(input) ==
  IF NoQuery(QueryOf(input)) THEN <<>> ELSE <<QueryOf(input).text>>

\* One invocation of the tool function with the store behaving as storeOutcome
InvokeTool ==
  /\ toolResult.kind = "none"
  /\ toolInput \in ToolInputs
  /\ toolResult' = func(toolInput, storeOutcome)
  /\ retrieverQueries' = retrieverQueries \o RetrieverCalls(toolInput)
  /\ UNCHANGED <<pc, body, env, thrown, response, constructed, agentInput,
                 runState, pending, scratchpad, toolInput, storeOutcome,
                 convIn, convOut>>

----------------------------------------------------------------------------
(* convertVercelMessagesToLangChainMessages *)

TextHi == <<"H", "i">>

Roles == {"user", "assistant", "tool"}

\* VercelChatMessage: content may be missing from the JSON object
Messages ==
  [role : Roles, hasContent : {TRUE}, content : {<<>>, TextHi}]
    \cup [role : Roles, hasContent : {FALSE}, content : {<<>>}]

MessageLists == SeqsUpTo(Messages, MaxMsgs)

HumanMessage(hasContent, content) ==
  [type |-> "human", hasContent |-> hasContent, content |-> content]

AIMessage(hasContent, content) ==
  [type |-> "ai", hasContent |-> hasContent, content |-> content]

ConvertMessageAllHuman(message) ==
  HumanMessage(message.hasContent, message.content)

\* The callback given to messages.map
ConvertMessage(message) ==
  IF message.role = "user"
    THEN HumanMessage(message.hasContent, message.content)
  ELSE IF message.role = "assistant"
    THEN AIMessage(message.hasContent, message.content)
  ELSE HumanMessage(TRUE,
         UnknownRolePrefix
           \o (IF message.hasContent THEN message.content ELSE UndefinedText))

convertVercelMessagesToLangChainMessages(messages) ==
  [i \in 1..Len(messages) |-> ConvertMessage(messages[i])]

NoConversion == [kind |-> "none", value |-> <<>>]

\* One call of the converter on convIn
Convert ==
  /\ convOut.kind = "none"
  /\ convOut' = [kind |-> "return",
                 value |-> convertVercelMessagesToLangChainMessages(convIn)]
  /\ UNCHANGED <<pc, body, env, thrown, response, constructed, agentInput,
                 runState, pending, scratchpad, retrieverQueries, toolInput,
                 storeOutcome, toolResult, convIn>>

----------------------------------------------------------------------------
(* POST *)

\* What req.json() yields: a rejection (the body is no JSON), JSON null, a
\* JSON value without properties of interest, or an object whose messages
\* property is absent or a list
Bodies ==
  [kind : {"syntax_error", "null", "scalar"}, hasMessages : {FALSE},
   messages : {<<>>}]
    \cup [kind : {"object"}, hasMessages : {FALSE}, messages : {<<>>}]
    \cup [kind : {"object"}, hasMessages : {TRUE}, messages : MessageLists]

Envs ==
  [SUPABASE_URL : BOOLEAN, SUPABASE_ANON_KEY : BOOLEAN, OPENAI_API_KEY : BOOLEAN]

\* e.message of a thrown error; "" stands for an empty or missing message
ErrorMessages == {"", "fetch failed"}

\* The statements of POST after the configuration check, in program order
SetupSteps ==
  <<"createClient", "OpenAIEmbeddings", "ChatOpenAI", "SupabaseVectorStore",
    "asRetriever", "createSearchTool", "ChatPromptTemplate",
    "createOpenAIToolsAgent", "AgentExecutor",
    "convertVercelMessagesToLangChainMessages", "streamEvents",
    "toDataStream">>

\* The steps completed when step k throws (k = 0: none throws)
CompletedBefore(k) ==
  {SetupSteps[i] : i \in 1..(IF k = 0 THEN Len(SetupSteps) ELSE k - 1)}

NothingThrown == [stage |-> "none", message |-> ""]
NoResponse == [status |-> 0, kind |-> "none", error |-> ""]
NoAgentInput == [given |-> FALSE, input |-> <<>>, chat_history |-> <<>>]

JsonError(status, message) ==
  [status |-> status, kind |-> "json", error |-> message]

StreamResponse == [status |-> 200, kind |-> "stream", error |-> ""]

\* body.messages ?? []
VercelMessages(b) ==
  IF b.kind = "object" /\ b.hasMessages THEN b.messages ELSE <<>>

\* JavaScript truthiness of message.content
Truthy(message) == message.hasContent /\ message.content # <<>>

MissingEnvNoModelKey(e) == ~e.SUPABASE_URL \/ ~e.SUPABASE_ANON_KEY

MissingEnvNoStoreUrl(e) == ~e.SUPABASE_ANON_KEY \/ ~e.OPENAI_API_KEY

\* !process.env.SUPABASE_URL || !process.env.SUPABASE_ANON_KEY || ...
MissingEnv(e) ==
  ~e.SUPABASE_URL \/ ~e.SUPABASE_ANON_KEY \/ ~e.OPENAI_API_KEY

HistoryAll(messages) == messages

\* vercelMessages.slice(0, -1)
HistorySlice(messages) == SubSeq(messages, 1, Len(messages) - 1)

CatchResponseNoMessage(message) ==
  JsonError(500, "An unexpected error occurred in the chat API.")

\* The outer catch of POST
CatchResponse(message) ==
  JsonError(500, IF message # "" THEN message
                 ELSE "An unexpected error occurred in the chat API.")

Outcome(resp, thr, done, input, run) ==
  [response |-> resp, thrown |-> thr, constructed |-> done,
   agentInput |-> input, runState |-> run]

Caught(stage, message, done) ==
  Outcome(CatchResponse(message), [stage |-> stage, message |-> message],
          done, NoAgentInput, "none")

Rejected(resp) == Outcome(resp, NothingThrown, {}, NoAgentInput, "none")

\* POST on body b under configuration e, where setup step k (0: none) throws an
\* error with message m; m is also the message of the error req.json() or
\* the read of body.messages throws
PostOutcome(b, e, k, m) ==
  IF b.kind = "syntax_error" THEN Caught("req.json", m, {})
  ELSE IF b.kind = "null" THEN Caught("body.messages", m, {})
  ELSE
    LET vercelMessages == VercelMessages(b)
        n == Len(vercelMessages)
    IN  IF n = 0 THEN Rejected(JsonError(400, "No messages provided"))
        ELSE IF ~Truthy(vercelMessages[n])
          THEN Rejected(JsonError(400, "No current message content found"))
        ELSE IF MissingEnv(e)
          THEN Rejected(JsonError(500, "Missing environment variables"))
        ELSE IF k # 0
          THEN Caught(SetupSteps[k], m, CompletedBefore(k))
        ELSE Outcome(StreamResponse, NothingThrown, CompletedBefore(0),
               [given |-> TRUE,
                input |-> vercelMessages[n].content,
                chat_history |->
                  convertVercelMessagesToLangChainMessages(
                    HistorySlice(vercelMessages))],
               "decide")

Post ==
  /\ pc = "idle"
  /\ \E b \in Bodies, e \in Envs, k \in 0..Len(SetupSteps), m \in ErrorMessages :
       LET out == PostOutcome(b, e, k, m)
       IN  /\ body' = b
           /\ env' = e
           /\ response' = out.response
           /\ thrown' = out.thrown
           /\ constructed' = out.constructed
           /\ agentInput' = out.agentInput
           /\ runState' = out.runState
  /\ pc' = "responded"
  /\ UNCHANGED <<pending, scratchpad, retrieverQueries, toolInput,
                 storeOutcome, toolResult, convIn, convOut>>

----------------------------------------------------------------------------
(* The agent run behind the returned stream (AgentExecutor, section 4.3 of *)
(* the specification): it proceeds after POST has returned its Response.   *)

NoPending ==
  [kind |-> "none", text |-> <<>>, hasQuery |-> FALSE, query |-> <<>>]

\* Tool inputs the model asks for, and what the store then does
ModelToolInputs ==
  {i \in ToolInputs : i.kind = "string" /\ i.text \in {<<>>, TextQ}}

RunStoreOutcomes ==
  {o \in StoreOutcomes :
     \/ o.kind = "throw" /\ o.error.hasMessage /\ o.error.message = TextTimeout
     \/ o.kind = "docs" /\ o.docs = <<>>}

\* Decide (a): the model emits a final answer
ModelFinal ==
  /\ runState = "decide"
  /\ runState' = "final"
  /\ UNCHANGED <<pc, body, env, thrown, response, constructed, agentInput,
                 pending, scratchpad, retrieverQueries, toolInput,
                 storeOutcome, toolResult, convIn, convOut>>

\* Decide (b): the model emits a call of search_knowledge_base
ModelToolCall ==
  /\ runState = "decide"
  /\ Len(scratchpad) < MaxToolCalls
  /\ \E input \in ModelToolInputs : pending' = input
  /\ runState' = "tool"
  /\ UNCHANGED <<pc, body, env, thrown, response, constructed, agentInput,
                 scratchpad, retrieverQueries, toolInput, storeOutcome,
                 toolResult, convIn, convOut>>

\* The model call fails
ModelFailure ==
  /\ runState = "decide"
  /\ runState' = "failed"
  /\ UNCHANGED <<pc, body, env, thrown, response, constructed, agentInput,
                 pending, scratchpad, retrieverQueries, toolInput,
                 storeOutcome, toolResult, convIn, convOut>>

\* Tool execution: func runs on the pending input
ToolStep ==
  /\ runState = "tool"
  /\ \E outcome \in RunStoreOutcomes :
       LET r == func(pending, outcome)
       IN  IF r.kind = "return"
             THEN /\ scratchpad' = Append(scratchpad, r.value)
                  /\ runState' = "decide"
             ELSE /\ scratchpad' = scratchpad
                  /\ runState' = "failed"
  /\ retrieverQueries' = retrieverQueries \o RetrieverCalls(pending)
  /\ pending' = NoPending
  /\ UNCHANGED <<pc, body, env, thrown, response, constructed, agentInput,
                 toolInput, storeOutcome, toolResult, convIn, convOut>>

----------------------------------------------------------------------------
(* Specifications *)

IdleHandler ==
  /\ pc = "idle"
  /\ body = [kind |-> "scalar", hasMessages |-> FALSE, messages |-> <<>>]
  /\ env = [SUPABASE_URL |-> FALSE, SUPABASE_ANON_KEY |-> FALSE,
            OPENAI_API_KEY |-> FALSE]
  /\ thrown = NothingThrown
  /\ response = NoResponse
  /\ constructed = {}
  /\ agentInput = NoAgentInput
  /\ runState = "none"
  /\ pending = NoPending
  /\ scratchpad = <<>>

IdleTool ==
  /\ toolInput = NoPending
  /\ storeOutcome = [kind |-> "docs", docs |-> <<>>, error |-> NoError]
  /\ toolResult = NotCalled

IdleConverter ==
  /\ convIn = <<>>
  /\ convOut = NoConversion

\* One request to POST /api/chat and the agent run it starts
Init ==
  /\ IdleHandler
  /\ IdleTool
  /\ IdleConverter
  /\ retrieverQueries = <<>>

Next == Post \/ ModelFinal \/ ModelToolCall \/ ModelFailure \/ ToolStep

Spec == Init /\ [][Next]_vars

\* One invocation of the tool function, over all inputs and store outcomes
InitTool ==
  /\ IdleHandler
  /\ IdleConverter
  /\ toolInput \in ToolInputs
  /\ storeOutcome \in StoreOutcomes
  /\ toolResult = NotCalled
  /\ retrieverQueries = <<>>

NextTool == InvokeTool

SpecTool == InitTool /\ [][NextTool]_vars

\* One call of the message converter, over all message lists
InitConv ==
  /\ IdleHandler
  /\ IdleTool
  /\ retrieverQueries = <<>>
  /\ convIn \in MessageLists
  /\ convOut = NoConversion

NextConv == Convert

SpecConv == InitConv /\ [][NextConv]_vars

----------------------------------------------------------------------------
(* Properties *)

StartsWith(s, prefix) ==
  Len(s) >= Len(prefix) /\ SubSeq(s, 1, Len(prefix)) = prefix

EndsWith(s, suffix) ==
  Len(s) >= Len(suffix)
    /\ SubSeq(s, Len(s) - Len(suffix) + 1, Len(s)) = suffix

\* Number of positions of s at which pat occurs
Occurrences(pat, s) ==
  Cardinality({i \in 1..(Len(s) - Len(pat) + 1) :
                 SubSeq(s, i, i + Len(pat) - 1) = pat})

Contains(s, pat) == Occurrences(pat, s) > 0

RECURSIVE Sum(_)
Sum(ns) == IF ns = <<>> THEN 0 ELSE Head(ns) + Sum(Tail(ns))

ToolErrorMarker == <<"T","o","o","l"," ","E","r","r","o","r",":">>
SourceMarker == <<"S","o","u","r","c","e",":">>
UnknownRoleMarker == <<"U","n","k","n","o","w","n"," ","r","o","l","e",":">>

ErrorBody(status) ==
  response.status = status /\ response.kind = "json" /\ response.error # ""

AllConfigured == env.SUPABASE_URL /\ env.SUPABASE_ANON_KEY /\ env.OPENAI_API_KEY

LastHasContent ==
  /\ body.messages # <<>>
  /\ body.messages[Len(body.messages)].hasContent
  /\ body.messages[Len(body.messages)].content # <<>>

\* C1: a request whose body was read and whose messages list is absent or
\* empty is answered 400 with an error field; one whose last message has
\* missing or empty content is answered 400 with an error field; one that
\* passes both checks while the store URL, the store key or the model key
\* is not configured is answered 500 with an error field.
C1_InputAndConfigChecks ==
  (pc = "responded" /\ body.kind \in {"object", "scalar"}) =>
    /\ (~body.hasMessages \/ body.messages = <<>>) => ErrorBody(400)
    /\ (body.messages # <<>> /\ ~LastHasContent) => ErrorBody(400)
    /\ (LastHasContent /\ ~AllConfigured) => ErrorBody(500)

C1_Witness ==
  /\ pc = "responded"
  /\ Len(body.messages) = 2
  /\ LastHasContent
  /\ ~env.SUPABASE_URL /\ env.SUPABASE_ANON_KEY /\ env.OPENAI_API_KEY
  /\ response = JsonError(500, "Missing environment variables")

\* C2: a request whose body is not parseable as JSON, or parses to a value
\* from which no messages list can be read, is answered 400 with an error
\* field; 500 is answered only for missing configuration or an internal
\* failure after the input was accepted.
C2_MalformedBodyIs400 ==
  pc = "responded" =>
    /\ body.kind \in {"syntax_error", "null"} => ErrorBody(400)
    /\ response.status = 500 =>
         (LastHasContent /\ (~AllConfigured \/ thrown.stage # "none"))

\* C3 as stated: an error thrown during setup or while the agent run
\* streams is answered 500 with a JSON body carrying the error message.
C3_AnyErrorIs500 ==
  (thrown.stage # "none" \/ runState = "failed") =>
    /\ response.status = 500
    /\ response.kind = "json"
    /\ thrown.message # "" => response.error = thrown.message

\* C3 amended: an error thrown before POST returns the streamed response is
\* answered 500 with a JSON body carrying the error's message (a fixed text
\* when the message is empty); a failure of the agent run behind the stream
\* happens after the 200 stream response was returned and leaves it as is.
C3_SetupErrorIs500 ==
  /\ thrown.stage # "none" =>
       /\ response.status = 500
       /\ response.kind = "json"
       /\ response.error =
            (IF thrown.message # "" THEN thrown.message
             ELSE "An unexpected error occurred in the chat API.")
  /\ runState = "failed" => (response = StreamResponse /\ thrown.stage = "none")

C3_Witness ==
  /\ pc = "responded"
  /\ thrown = [stage |-> "createOpenAIToolsAgent", message |-> "fetch failed"]
  /\ response = JsonError(500, "fetch failed")

\* C4: when the store URL, the store key or the model key is not
\* configured, POST answers with an error and no collaborator is constructed
\* or called: no setup step ran, no agent input was given, no agent run
\* started and the retriever was never queried; with valid input the answer
\* is the 500.
C4_NoUpstreamWithoutConfig ==
  (pc = "responded" /\ ~AllConfigured) =>
    /\ constructed = {}
    /\ ~agentInput.given
    /\ runState = "none"
    /\ retrieverQueries = <<>>
    /\ response.status \in {400, 500}
    /\ (body.kind = "object" /\ LastHasContent) => response.status = 500

C4_Witness ==
  /\ pc = "responded"
  /\ env.SUPABASE_URL /\ env.SUPABASE_ANON_KEY /\ ~env.OPENAI_API_KEY
  /\ LastHasContent
  /\ response.status = 500
  /\ constructed = {}

C6_ConverterPositionwise ==
  /\ convOut.kind \in {"none", "return"}
  /\ convOut.kind = "return" =>
       /\ Len(convOut.value) = Len(convIn)
       /\ \A i \in 1..Len(convIn) :
            LET m == convIn[i]
                out == convOut.value[i]
            IN  /\ m.role = "user" =>
                     /\ out.type = "human"
                     /\ out.hasContent = m.hasContent
                     /\ out.content = m.content
                /\ m.role = "assistant" =>
                     /\ out.type = "ai"
                     /\ out.hasContent = m.hasContent
                     /\ out.content = m.content
                /\ m.role \notin {"user", "assistant"} =>
                     /\ out.type = "human"
                     /\ out.hasContent
                     /\ StartsWith(out.content, UnknownRoleMarker)
                     /\ m.hasContent => EndsWith(out.content, m.content)
                     /\ m.hasContent =>
                          Len(out.content)
                            = Len(UnknownRoleMarker) + 1 + Len(m.content)

C6_Witness ==
  /\ convOut.kind = "return"
  /\ Len(convIn) = 2
  /\ convIn[1].role = "tool" /\ convIn[1].content = TextHi
  /\ convIn[2].role = "assistant"
  /\ convOut.value[2].type = "ai"

BlankQuery(input) ==
  LET q == IF input.kind = "string" THEN input.text ELSE input.query
  IN  \A i \in 1..Len(q) : q[i] \in WhiteSpace

\* C8: an invocation whose query is empty or only white space returns the
\* fixed "Tool Error: No query provided..." text and does not call the
\* retriever.
C8_BlankQueryNoSearch ==
  (toolResult.kind # "none" /\ BlankQuery(toolInput)) =>
    /\ toolResult = Return(ToolErrorNoQuery)
    /\ retrieverQueries = <<>>

C8_Witness ==
  /\ toolResult.kind = "return"
  /\ toolInput.kind = "string"
  /\ toolInput.text = TextBlank
  /\ storeOutcome.kind = "docs"
  /\ Len(storeOutcome.docs) = 1

Searched ==
  /\ toolResult.kind = "return"
  /\ ~BlankQuery(toolInput)
  /\ storeOutcome.kind = "docs"

ShownSource(doc) ==
  IF doc.hasSource /\ doc.source # <<>> THEN doc.source ELSE UnknownSource

Entry(doc) ==
  SourceLabel \o ShownSource(doc) \o ContentLabel \o doc.pageContent

EntriesInOrder(docs, text) ==
  /\ StartsWith(text, FoundHeader \o Entry(docs[1]))
  /\ EndsWith(text, Entry(docs[Len(docs)]))
  /\ \A i \in 1..(Len(docs) - 1) :
       Contains(text, Entry(docs[i]) \o DocDelimiter \o Entry(docs[i + 1]))

\* C9 as stated: for a non-empty query, zero documents give exactly the "No
\* relevant information found" text, and N > 0 documents give a result with
\* exactly N occurrences of "Source:", one entry per document in store
\* order, a missing source shown as "Unknown Source", consecutive entries
\* separated by the delimiter line.
C9_ExactlyNSourceMarkers ==
  Searched =>
    LET docs == storeOutcome.docs
    IN  /\ docs = <<>> => toolResult.value = NoRelevantInfo
        /\ docs # <<>> =>
             /\ Occurrences(SourceMarker, toolResult.value) = Len(docs)
             /\ EntriesInOrder(docs, toolResult.value)

\* C9 amended: for a non-empty query, zero documents give exactly the "No
\* relevant information found" text, and N > 0 documents give the header
\* followed by one entry per document in store order, a missing source shown
\* as "Unknown Source", consecutive entries separated by the delimiter line;
\* the result contains N occurrences of "Source:" plus one for every
\* occurrence of "Source:" inside a document's own source or content, hence
\* exactly N when no document text contains it.
C9_EntriesPerDocument ==
  Searched =>
    LET docs == storeOutcome.docs
    IN  /\ docs = <<>> => toolResult.value = NoRelevantInfo
        /\ docs # <<>> =>
             /\ Occurrences(SourceMarker, toolResult.value)
                  = Len(docs)
                      + Sum([i \in 1..Len(docs) |->
                               Occurrences(SourceMarker, ShownSource(docs[i]))
                                 + Occurrences(SourceMarker, docs[i].pageContent)])
             /\ EntriesInOrder(docs, toolResult.value)
             /\ Len(toolResult.value)
                  = Len(FoundHeader)
                      + Sum([i \in 1..Len(docs) |-> Len(Entry(docs[i]))])
                      + (Len(docs) - 1) * Len(DocDelimiter)

C9_Witness ==
  /\ Searched
  /\ Len(storeOutcome.docs) = 2
  /\ storeOutcome.docs[1].source = TextA
  /\ storeOutcome.docs[2].source = TextB
  /\ Occurrences(SourceMarker, toolResult.value) = 2
  /\ Contains(toolResult.value,
              <<"\n","\n","-","-","-","\n","S","o","u","r","c","e",":"," ","b">>)

====
